---- MODULE Spec2Model ----
(***************************************************************************)
(* State-machine model of the random network-assembly selection policy     *)
(* (opencog/generate/RandomCallback.cc) and of the pole registration done  *)
(* by GenerateSCM::do_random_aggregate.                                    *)
(*                                                                         *)
(* Handles are modelled as naturals: 0 is Handle::UNDEFINED, 1..Len(inst)  *)
(* are the Section Instances created so far.  Atoms are immutable, so an   *)
(* instance keeps the connector sequence of its template for ever.         *)
(* The `offset` argument of select is ignored by all three select          *)
(* functions and is therefore not modelled.                                *)
(*                                                                         *)
(* Specifications: Spec (select and the frame stack over a changing        *)
(* frontier), SpecCount (step and solution), SpecSearch (the five callback *)
(* operations together), SpecLexis (select_from_lexis over every weight    *)
(* assignment), SpecRuns (the generator in two runs), SpecPoles (pole      *)
(* registration), SpecRedraw (the redraw loop of select_from_open turn by  *)
(* turn), SpecLexicon (how do_random_aggregate fills the Dictionary).      *)
(***************************************************************************)
EXTENDS Naturals, Sequences, FiniteSets, TLC

\* ------------------------------------------------------------------ bounds
MaxInst == 2         \* Section Instances ever created (seed included)
MaxDepth == 2        \* depth of the frame stack
MaxMaxSolutions == 5 \* largest max_solutions a run is configured with
MaxPoleDecls == 2    \* MemberLinks that point at the caller's pole set
MaxLexisPoles == 2   \* distinct atoms used as the pole of a lexis connector
MaxDraws == 2        \* sections select_from_lexis makes when called on its own
MaxSeed == 7         \* largest value the random device seeds the generator with
MaxChoices == 2      \* random draws compared between two runs

\* --------------------------------------------------------------- constants
UNDEFINED == 0       \* Handle::UNDEFINED
NoValue == 99        \* sect->getValue(_weight_key) yields no FloatValue
DefaultMaxSolutions == 1  \* max_solutions when the caller sets none

\* Connector atoms.  No template holds "c".
Cons == {"a", "c"}

\* The lexis: the templates in registration order, each with its connector
\* sequence and the value stored under the weight key.
Templates == {1, 2}
TemplateConSeq == << <<"a", "a">>, <<"a">> >>
TemplateWeight == << 1, NoValue >>

\* What a caller can store under the weight key of a lexis section: a
\* FloatValue of 0.0 or 1.0, or nothing.
Weights == {0, 1, NoValue}

\* ------------------------------------------------------------------- state
VARIABLES
  inst,                 \* inst[i]: the template Section Instance i was made from
  open_sections,        \* frame._open_sections
  opensect,             \* _opensel._opensect : to_con -> HandleSeq
  opendi,               \* _opensel._opendi   : to_con -> distribution (its size)
  opensel_stack,        \* _opensel_stack
  distmap,              \* _distmap : to_con -> pdf
  num_solutions_found,  \* _num_solutions_found
  solutions,            \* number of networks recorded by record_solution
  max_solutions,        \* _parms->max_solutions
  armed,                \* driver: the last step returned true, no solution since
  saved,                \* history: the caches as they were at each open push_frame
  last,                 \* the last call: operation, arguments, results; after
                        \* a pop_frame, _distmap as it was at the matching push;
                        \* after a step, what _parms->step(frm) answered
  weight,               \* weight[t]: sect->getValue(_weight_key) of template t
  rangen,               \* rangen[r]: the state of the generator in run r
  choices,              \* choices[r]: the indices drawn so far in run r
  lexis,                \* the Section atoms the caller hands over as the lexis
  lex,                  \* the Section atoms the Dictionary holds as its lexis
  poleset,              \* the MemberLinks in the incoming set of `poles`
  pending,              \* those the registration loop has yet to visit
  pole_pairs,           \* the pole pairs the Dictionary holds
  lexis_poles,          \* the atoms that are the pole of some lexis connector
  edges                 \* the connector pairs the driver has joined

selVars == << inst, open_sections, opensect, opendi, opensel_stack, distmap,
              num_solutions_found, solutions, max_solutions, armed, saved,
              last >>

poleVars == << poleset, pending, pole_pairs, lexis_poles, edges >>

lexVars == << weight >>

runVars == << rangen, choices >>

dictVars == << lexis, lex >>

vars == << selVars, poleVars, lexVars, runVars, dictVars >>

Instances == 1..Len(inst)

\* ----------------------------------------------------------------- helpers
RECURSIVE SetToSeq(_)
\* The elements of a set of handles in ascending order (iteration order of
\* a HandleSet).
SetToSeq(S) ==
  IF S = {} THEN <<>>
  ELSE LET m == CHOOSE x \in S : \A y \in S : x <= y
       IN <<m>> \o SetToSeq(S \ {m})

RECURSIVE Flatten(_)
Flatten(ss) == IF ss = <<>> THEN <<>> ELSE Head(ss) \o Flatten(Tail(ss))

\* open_sect->getOutgoingAtom(1)->getOutgoingSet()
ConSeqOf(i) == TemplateConSeq[inst[i]]

\* One copy of `x` per occurrence of `con` in the connector sequence `cs`.
RECURSIVE Matches(_, _, _)
Matches(x, cs, con) ==
  IF cs = <<>> THEN <<>>
  ELSE (IF Head(cs) = con THEN <<x>> ELSE <<>>) \o Matches(x, Tail(cs), con)

\* Lines 116-125: the list of connectable sections of the frame.
Connectable(open, con) ==
  LET os == SetToSeq(open)
  IN Flatten([k \in 1..Len(os) |-> Matches(os[k], ConSeqOf(os[k]), con)])

\* Dictionary::sections(to_con): the templates holding to_con.
Sections(con) ==
  LET ts == SetToSeq(Templates)
  IN Flatten([k \in 1..Len(ts) |-> IF \E j \in 1..Len(TemplateConSeq[ts[k]]) :
                                          TemplateConSeq[ts[k]][j] = con
                                   THEN <<ts[k]>> ELSE <<>>])

\* The pdf with 1.0 pushed where no weight is stored.
PdfAbsentIsOne(to_sects) ==
  [k \in 1..Len(to_sects) |->
     IF weight[to_sects[k]] = NoValue THEN 1
     ELSE weight[to_sects[k]]]

\* Lines 69-77: the pdf of the candidates, 0.0 where no weight is stored.
Pdf(to_sects) ==
  [k \in 1..Len(to_sects) |->
     IF weight[to_sects[k]] = NoValue THEN 0
     ELSE weight[to_sects[k]]]

RECURSIVE Sum(_)
Sum(s) == IF s = <<>> THEN 0 ELSE Head(s) + Sum(Tail(s))

\* dist(rangen) of a std::discrete_distribution over `pdf`: an index of
\* positive weight.  With all weights zero the distribution's precondition
\* (a positive sum) is broken and any index may come out.
Draw(pdf) ==
  IF Sum(pdf) > 0 THEN {k \in 1..Len(pdf) : pdf[k] > 0}
  ELSE 1..Len(pdf)

\* A std::map with no entries.
EmptyMap == [c \in {} |-> 0]

\* map[key] = value
Put(map, key, value) == (key :> value) @@ map

NoCall == [op |-> "init", fm |-> 0, con |-> "a", ce |-> FALSE,
           open |-> 0, ret |-> 0, ok |-> FALSE, dm |-> EmptyMap,
           ps |-> FALSE]

Call(o) == [NoCall EXCEPT !.op = o]

\* The Section atoms of the templates.
TemplateAtoms == {<<"tmpl", t>> : t \in Templates}

\* as->get_handleset_by_type(lex, SECTION): every Section atom of the
\* AtomSpace, the templates and the sections the search has made.  The
\* seed section is a section of the lexis itself.
SectionAtoms == TemplateAtoms \cup {<<"inst", i>> : i \in 2..Len(inst)}

\* -------------------------------------------------------------------- Init
\* The state after construction: one seed section, itself a section of the
\* lexis, is open; the caches are empty and no solution has been found.
\* The draws of select are any outcome the distribution allows, so the
\* generator is left at rest here; SpecRuns follows it.  The Dictionary
\* was filled from an AtomSpace that holds the caller's templates and no
\* other Section; SpecLexicon follows how it is filled.
Init ==
  /\ \E t \in Templates : inst = <<t>>
  /\ open_sections = {1}
  /\ opensect = EmptyMap
  /\ opendi = EmptyMap
  /\ opensel_stack = <<>>
  /\ distmap = EmptyMap
  /\ num_solutions_found = 0
  /\ solutions = 0
  /\ max_solutions \in 1..MaxMaxSolutions
  /\ armed = FALSE
  /\ saved = <<>>
  /\ last = NoCall
  /\ weight = TemplateWeight
  /\ rangen = <<0, 0>>
  /\ choices = << <<>>, <<>> >>
  /\ lexis = TemplateAtoms
  /\ lex = TemplateAtoms
  /\ poleset = {}
  /\ pending = {}
  /\ pole_pairs = {}
  /\ lexis_poles = {}
  /\ edges = {}

\* ------------------------------------------------------ RandomCallback.cc
\* select_from_open with the self test of the single-candidate case left
\* out: a lone candidate is returned even when it is the requester.
SelectFromOpenNoSelfTest(fm_sect, to_con) ==
  IF to_con \in DOMAIN opensect /\ Len(opensect[to_con]) = 0
  THEN {[ret |-> UNDEFINED, os |-> opensect, od |-> opendi]}
  ELSE IF to_con \in DOMAIN opendi
  THEN {[ret |-> opensect[to_con][k], os |-> opensect, od |-> opendi] :
          k \in 1..opendi[to_con]}
  ELSE
    LET to_sects == Connectable(open_sections, to_con)
        os == Put(opensect, to_con, to_sects)
        only_self == \A k \in 1..Len(to_sects) : to_sects[k] = fm_sect
    IN IF Len(to_sects) = 0
       THEN {[ret |-> UNDEFINED, os |-> os, od |-> opendi]}
       ELSE IF Len(to_sects) = 1
       THEN {[ret |-> to_sects[1], os |-> os, od |-> opendi]}
       ELSE IF only_self
       THEN {[ret |-> UNDEFINED, os |-> os, od |-> opendi]}
       ELSE {[ret |-> to_sects[k], os |-> os,
              od |-> Put(opendi, to_con, Len(to_sects))] :
               k \in {j \in 1..Len(to_sects) : to_sects[j] # fm_sect}}

\* select_from_open: the possible outcomes, each the returned handle and
\* the caches as the call leaves them.
SelectFromOpen(fm_sect, to_con) ==
  IF to_con \in DOMAIN opensect /\ Len(opensect[to_con]) = 0
  THEN {[ret |-> UNDEFINED, os |-> opensect, od |-> opendi]}
  ELSE IF to_con \in DOMAIN opendi
  THEN {[ret |-> opensect[to_con][k], os |-> opensect, od |-> opendi] :
          k \in 1..opendi[to_con]}
  ELSE
    LET to_sects == Connectable(open_sections, to_con)
        os == Put(opensect, to_con, to_sects)
        only_self == \A k \in 1..Len(to_sects) : to_sects[k] = fm_sect
    IN IF Len(to_sects) = 0
       THEN {[ret |-> UNDEFINED, os |-> os, od |-> opendi]}
       ELSE IF Len(to_sects) = 1
       THEN {[ret |-> IF to_sects[1] # fm_sect THEN to_sects[1] ELSE UNDEFINED,
              os |-> os, od |-> opendi]}
       ELSE IF only_self
       THEN {[ret |-> UNDEFINED, os |-> os, od |-> opendi]}
       ELSE {[ret |-> to_sects[k], os |-> os,
              od |-> Put(opendi, to_con, Len(to_sects))] :
               k \in {j \in 1..Len(to_sects) : to_sects[j] # fm_sect}}

\* select_from_lexis with the pdf cached before the dead-end test.
SelectFromLexisCacheFirst(to_con) ==
  LET to_sects == Sections(to_con)
  IN IF to_con \in DOMAIN distmap
     THEN IF Len(to_sects) = 0
          THEN {[tmpl |-> UNDEFINED, dm |-> distmap]}
          ELSE {[tmpl |-> to_sects[k], dm |-> distmap] :
                  k \in Draw(distmap[to_con])}
     ELSE IF Len(to_sects) = 0
          THEN {[tmpl |-> UNDEFINED, dm |-> Put(distmap, to_con, Pdf(to_sects))]}
          ELSE {[tmpl |-> to_sects[k],
                 dm |-> Put(distmap, to_con, Pdf(to_sects))] :
                  k \in Draw(Pdf(to_sects))}

\* select_from_lexis that gives up when the candidates carry no mass.
SelectFromLexisNoneOnZeroMass(to_con) ==
  LET to_sects == Sections(to_con)
  IN IF Len(to_sects) = 0 \/ Sum(Pdf(to_sects)) = 0
     THEN {[tmpl |-> UNDEFINED, dm |-> distmap]}
     ELSE IF to_con \in DOMAIN distmap
     THEN {[tmpl |-> to_sects[k], dm |-> distmap] : k \in Draw(distmap[to_con])}
     ELSE {[tmpl |-> to_sects[k], dm |-> Put(distmap, to_con, Pdf(to_sects))] :
             k \in Draw(Pdf(to_sects))}

\* select_from_lexis: the possible outcomes, each the template drawn
\* (UNDEFINED at a dead end) and the distribution cache as the call leaves it.
SelectFromLexis(to_con) ==
  LET to_sects == Sections(to_con)
  IN IF Len(to_sects) = 0
     THEN {[tmpl |-> UNDEFINED, dm |-> distmap]}
     ELSE IF to_con \in DOMAIN distmap
     THEN {[tmpl |-> to_sects[k], dm |-> distmap] : k \in Draw(distmap[to_con])}
     ELSE {[tmpl |-> to_sects[k], dm |-> Put(distmap, to_con, Pdf(to_sects))] :
             k \in Draw(Pdf(to_sects))}

\* The reuse step taken whatever connect_existing(frame) answers.
TryOpenAlways(fm_sect, to_con, ce) == SelectFromOpen(fm_sect, to_con)

\* The reuse step of select: select_from_open when connect_existing(frame)
\* holds, nothing otherwise.
TryOpen(fm_sect, to_con, ce) ==
  IF ce THEN SelectFromOpen(fm_sect, to_con)
  ELSE {[ret |-> UNDEFINED, os |-> opensect, od |-> opendi]}

\* select(frame, fm_sect, offset, to_con); ce is what
\* _parms->connect_existing(frame) answers.
Select(fm_sect, to_con, ce) ==
  \E o \in TryOpen(fm_sect, to_con, ce) :
    /\ opensect' = o.os
    /\ opendi' = o.od
    /\ IF o.ret # UNDEFINED
       THEN /\ last' = [op |-> "select", fm |-> fm_sect, con |-> to_con,
                        ce |-> ce, open |-> o.ret, ret |-> o.ret, ok |-> FALSE,
                        dm |-> EmptyMap, ps |-> FALSE]
            /\ UNCHANGED << inst, distmap >>
       ELSE \E l \in SelectFromLexis(to_con) :
              /\ distmap' = l.dm
              /\ IF l.tmpl = UNDEFINED
                 THEN /\ inst' = inst
                      /\ last' = [op |-> "select", fm |-> fm_sect,
                                  con |-> to_con, ce |-> ce, open |-> UNDEFINED,
                                  ret |-> UNDEFINED, ok |-> FALSE,
                                  dm |-> EmptyMap, ps |-> FALSE]
                 ELSE /\ Len(inst) < MaxInst
                      /\ inst' = Append(inst, l.tmpl)
                      /\ last' = [op |-> "select", fm |-> fm_sect,
                                  con |-> to_con, ce |-> ce, open |-> UNDEFINED,
                                  ret |-> Len(inst) + 1, ok |-> FALSE,
                                  dm |-> EmptyMap, ps |-> FALSE]
    /\ UNCHANGED << open_sections, opensel_stack, num_solutions_found,
                    solutions, max_solutions, armed, saved >>
    /\ UNCHANGED << poleVars, lexVars, runVars, dictVars >>

\* push_frame that saves the caches and keeps them live in the new branch.
PushFrameKeepLive ==
  /\ Len(opensel_stack) < MaxDepth
  /\ opensel_stack' = Append(opensel_stack, [os |-> opensect, od |-> opendi])
  /\ saved' = Append(saved, [os |-> opensect, od |-> opendi,
                            dm |-> distmap])
  /\ last' = Call("push_frame")
  /\ UNCHANGED << inst, open_sections, opensect, opendi, distmap,
                  num_solutions_found, solutions, max_solutions, armed >>
  /\ UNCHANGED << poleVars, lexVars, runVars, dictVars >>

\* push_frame that clears the candidate lists and keeps the distributions.
PushFrameKeepDist ==
  /\ Len(opensel_stack) < MaxDepth
  /\ opensel_stack' = Append(opensel_stack, [os |-> opensect, od |-> opendi])
  /\ opensect' = EmptyMap
  /\ opendi' = opendi
  /\ saved' = Append(saved, [os |-> opensect, od |-> opendi,
                            dm |-> distmap])
  /\ last' = Call("push_frame")
  /\ UNCHANGED << inst, open_sections, distmap, num_solutions_found,
                  solutions, max_solutions, armed >>
  /\ UNCHANGED << poleVars, lexVars, runVars, dictVars >>

\* push_frame that clears the caches before it saves them.
PushFrameClearFirst ==
  /\ Len(opensel_stack) < MaxDepth
  /\ opensel_stack' = Append(opensel_stack, [os |-> EmptyMap, od |-> EmptyMap])
  /\ opensect' = EmptyMap
  /\ opendi' = EmptyMap
  /\ saved' = Append(saved, [os |-> opensect, od |-> opendi,
                            dm |-> distmap])
  /\ last' = Call("push_frame")
  /\ UNCHANGED << inst, open_sections, distmap, num_solutions_found,
                  solutions, max_solutions, armed >>
  /\ UNCHANGED << poleVars, lexVars, runVars, dictVars >>

\* push_frame
PushFrame ==
  /\ Len(opensel_stack) < MaxDepth
  /\ opensel_stack' = Append(opensel_stack, [os |-> opensect, od |-> opendi])
  /\ opensect' = EmptyMap
  /\ opendi' = EmptyMap
  /\ saved' = Append(saved, [os |-> opensect, od |-> opendi,
                            dm |-> distmap])
  /\ last' = Call("push_frame")
  /\ UNCHANGED << inst, open_sections, distmap, num_solutions_found,
                  solutions, max_solutions, armed >>
  /\ UNCHANGED << poleVars, lexVars, runVars, dictVars >>

\* pop_frame of a policy that keeps _distmap in the frame-scoped caches:
\* the pop brings back the distribution cache of the matching push.
PopFrameRestoreAll ==
  /\ Len(opensel_stack) > 0
  /\ opensect' = opensel_stack[Len(opensel_stack)].os
  /\ opendi' = opensel_stack[Len(opensel_stack)].od
  /\ distmap' = saved[Len(saved)].dm
  /\ opensel_stack' = SubSeq(opensel_stack, 1, Len(opensel_stack) - 1)
  /\ saved' = SubSeq(saved, 1, Len(saved) - 1)
  /\ last' = [Call("pop_frame") EXCEPT !.dm = saved[Len(saved)].dm]
  /\ UNCHANGED << inst, open_sections, num_solutions_found,
                  solutions, max_solutions, armed >>
  /\ UNCHANGED << poleVars, lexVars, runVars, dictVars >>

\* pop_frame; the driver never pops past the bottom of the stack.
PopFrame ==
  /\ Len(opensel_stack) > 0
  /\ opensect' = opensel_stack[Len(opensel_stack)].os
  /\ opendi' = opensel_stack[Len(opensel_stack)].od
  /\ opensel_stack' = SubSeq(opensel_stack, 1, Len(opensel_stack) - 1)
  /\ saved' = SubSeq(saved, 1, Len(saved) - 1)
  /\ last' = [Call("pop_frame") EXCEPT !.dm = saved[Len(saved)].dm]
  /\ UNCHANGED << inst, open_sections, distmap, num_solutions_found,
                  solutions, max_solutions, armed >>
  /\ UNCHANGED << poleVars, lexVars, runVars, dictVars >>

\* step with the cap reached as soon as the count equals max_solutions.
StepResultAtCap(parms_step) ==
  IF max_solutions <= num_solutions_found THEN FALSE ELSE parms_step

\* What step returns; parms_step is what _parms->step(frm) answers.
StepResult(parms_step) ==
  IF max_solutions < num_solutions_found THEN FALSE ELSE parms_step

\* step
Step(parms_step) ==
  /\ last' = [Call("step") EXCEPT !.ok = StepResult(parms_step),
                                  !.ps = parms_step]
  /\ armed' = StepResult(parms_step)
  /\ UNCHANGED << inst, open_sections, opensect, opendi, opensel_stack,
                  distmap, num_solutions_found, solutions, max_solutions,
                  saved >>
  /\ UNCHANGED << poleVars, lexVars, runVars, dictVars >>

\* solution that counts the network and does not record it.
SolutionCountOnly ==
  /\ armed
  /\ num_solutions_found' = num_solutions_found + 1
  /\ solutions' = solutions
  /\ armed' = FALSE
  /\ last' = Call("solution")
  /\ UNCHANGED << inst, open_sections, opensect, opendi, opensel_stack,
                  distmap, max_solutions, saved >>
  /\ UNCHANGED << poleVars, lexVars, runVars, dictVars >>

\* solution; the driver calls it at most once after a step that returned
\* true.
Solution ==
  /\ armed
  /\ num_solutions_found' = num_solutions_found + 1
  /\ solutions' = solutions + 1
  /\ armed' = FALSE
  /\ last' = Call("solution")
  /\ UNCHANGED << inst, open_sections, opensect, opendi, opensel_stack,
                  distmap, max_solutions, saved >>
  /\ UNCHANGED << poleVars, lexVars, runVars, dictVars >>

\* The driver commits the edge to the section select returned: the section
\* joins the frame's open sections, and an endpoint whose connectors are
\* now all joined leaves them.
DriverCommit ==
  /\ last.op = "select"
  /\ last.ret # UNDEFINED
  /\ \E gone \in SUBSET {last.fm, last.ret} :
       open_sections' = (open_sections \cup {last.ret}) \ gone
  /\ last' = Call("commit")
  /\ UNCHANGED << inst, opensect, opendi, opensel_stack, distmap,
                  num_solutions_found, solutions, max_solutions, armed, saved >>
  /\ UNCHANGED << poleVars, lexVars, runVars, dictVars >>

\* ---------------------------------------------------------- GenerateSCM.cc
\* Atoms of the caller's pole table.  A pole pair is declared by
\* (Member (Set dirA dirB) poles) when symmetric and by
\* (Member (List dirA dirB) poles) when ordered.
Dirs == {"p", "q"}

Node(type, name) == [type |-> type, name |-> name, out |-> <<>>]

Link(type, out) == [type |-> type, name |-> "", out |-> out]

Dir(d) == Node("ConnectorDir", d)

\* The pole set the caller hands to do_random_aggregate.
poles == Node("Concept", "any to any")

\* The atoms a caller declares as pole pairs; an unordered link is one atom
\* whatever the order its members are written in.
PairAtoms ==
  {Link("ListLink", <<Dir(x), Dir(y)>>) : x \in Dirs, y \in Dirs}
  \cup {Link("SetLink", <<Dir(pr[1]), Dir(pr[2])>>) :
          pr \in {xy \in Dirs \X Dirs : xy[1] = "p" \/ xy[2] = "q"}}

\* The MemberLinks that can hold `poles`: the declarations, and a link in
\* which `poles` is the member and not the set.
MemberLinks ==
  {Link("MemberLink", <<a, poles>>) : a \in PairAtoms}
  \cup {Link("MemberLink", <<poles, Node("Concept", "other")>>)}

\* nameserver().isA(type, UNORDERED_LINK)
IsUnordered(type) == type \in {"SetLink", "UnorderedLink"}

\* One turn of the registration loop, lines 61-74: the pairs added to the
\* Dictionary for the MemberLink pole_pair.
AddedPolePairs(pole_pair) ==
  IF pole_pair.out[2] # poles THEN {}
  ELSE LET p0 == pole_pair.out[1]
           p1 == pole_pair.out[2]
       IN {<<p0, p1>>}
          \cup (IF IsUnordered(pole_pair.type) /\ p0 # p1
                THEN {<<p1, p0>>} ELSE {})

\* do_random_aggregate, lines 59-74: the loop visits one MemberLink.
AddPoles ==
  /\ \E pole_pair \in pending :
       /\ pending' = pending \ {pole_pair}
       /\ pole_pairs' = pole_pairs \cup AddedPolePairs(pole_pair)
  /\ UNCHANGED << poleset, lexis_poles, edges >>
  /\ UNCHANGED << selVars, lexVars, runVars, dictVars >>

\* The driver joins two connectors of the lexis: it asks the Dictionary for
\* the mate of the open connector's pole, so the two poles are a pair the
\* Dictionary holds.  The search starts once the poles are registered.
DriverJoin ==
  /\ pending = {}
  /\ \E pair \in pole_pairs :
       /\ pair[1] \in lexis_poles
       /\ pair[2] \in lexis_poles
       /\ edges' = edges \cup {pair}
  /\ UNCHANGED << poleset, pending, pole_pairs, lexis_poles >>
  /\ UNCHANGED << selVars, lexVars, runVars, dictVars >>

\* The atoms the connectors of a lexis can carry as their pole: any atom
\* of the AtomSpace will do, a ConnectorDir being the intended one.
PoleAtoms == {Dir(d) : d \in Dirs} \cup PairAtoms \cup {poles}

\* The pole table is any set of up to MaxPoleDecls MemberLinks, the lexis
\* any whose connectors carry up to MaxLexisPoles poles.
InitPoles ==
  /\ \E t \in Templates : inst = <<t>>
  /\ open_sections = {1}
  /\ opensect = EmptyMap
  /\ opendi = EmptyMap
  /\ opensel_stack = <<>>
  /\ distmap = EmptyMap
  /\ num_solutions_found = 0
  /\ solutions = 0
  /\ max_solutions = DefaultMaxSolutions
  /\ armed = FALSE
  /\ saved = <<>>
  /\ last = NoCall
  /\ weight = TemplateWeight
  /\ rangen = <<0, 0>>
  /\ choices = << <<>>, <<>> >>
  /\ lexis = TemplateAtoms
  /\ lex = TemplateAtoms
  /\ poleset \in {ms \in SUBSET MemberLinks :
                    Cardinality(ms) >= 1 /\ Cardinality(ms) <= MaxPoleDecls}
  /\ pending = poleset
  /\ pole_pairs = {}
  /\ lexis_poles \in {ps \in SUBSET PoleAtoms :
                        Cardinality(ps) >= 1 /\ Cardinality(ps) <= MaxLexisPoles}
  /\ edges = {}

NextPoles ==
  \/ AddPoles
  \/ DriverJoin

SpecPoles == InitPoles /\ [][NextPoles]_vars


\* The selection policy and its frame stack, driven over one search.
NextSelect ==
  \/ \E fm_sect \in Instances, to_con \in Cons, ce \in BOOLEAN :
       Select(fm_sect, to_con, ce)
  \/ PushFrame
  \/ PopFrame
  \/ DriverCommit

InitSelect == Init /\ max_solutions = DefaultMaxSolutions

Spec == InitSelect /\ [][NextSelect]_vars

\* The solution cap: step and solution under the driver contract.
NextCount ==
  \/ \E parms_step \in BOOLEAN : Step(parms_step)
  \/ Solution

SpecCount == Init /\ [][NextCount]_vars

\* The whole callback interface over one search: select, push_frame,
\* pop_frame, step and solution, with max_solutions at its default.
NextSearch ==
  \/ \E fm_sect \in Instances, to_con \in Cons, ce \in BOOLEAN :
       Select(fm_sect, to_con, ce)
  \/ PushFrame
  \/ PopFrame
  \/ \E parms_step \in BOOLEAN : Step(parms_step)
  \/ Solution

SpecSearch == InitSelect /\ [][NextSearch]_vars

\* A section maker that hands back the section it made earlier from the
\* same template, as adding an identical atom to the AtomSpace would.
CreateOrReuseSection(tmpl) ==
  IF \E i \in 2..Len(inst) : inst[i] = tmpl
  THEN CHOOSE i \in 2..Len(inst) : inst[i] = tmpl
  ELSE Len(inst) + 1

\* create_unique_section(tmpl): the handle of the Section Instance made
\* from the template, a section that did not exist before the call.
CreateUniqueSection(tmpl) == Len(inst) + 1

\* select_from_lexis called on its own: it returns what
\* create_unique_section makes of the template drawn.
CallSelectFromLexis(to_con) ==
  \E l \in SelectFromLexis(to_con) :
    /\ distmap' = l.dm
    /\ IF l.tmpl = UNDEFINED
       THEN /\ inst' = inst
            /\ last' = [Call("select_from_lexis") EXCEPT !.con = to_con]
       ELSE /\ Len(inst) <= MaxDraws
            /\ inst' = IF CreateUniqueSection(l.tmpl) = Len(inst) + 1
                       THEN Append(inst, l.tmpl) ELSE inst
            /\ last' = [Call("select_from_lexis") EXCEPT
                          !.con = to_con,
                          !.ret = CreateUniqueSection(l.tmpl)]
    /\ UNCHANGED << open_sections, opensect, opendi, opensel_stack,
                    num_solutions_found, solutions, max_solutions, armed,
                    saved >>
    /\ UNCHANGED << poleVars, lexVars, runVars, dictVars >>

\* The Lexicon path over every lexis of the two templates: each template
\* carries any of the weights a caller can store.
InitLexis ==
  /\ \E t \in Templates : inst = <<t>>
  /\ open_sections = {1}
  /\ opensect = EmptyMap
  /\ opendi = EmptyMap
  /\ opensel_stack = <<>>
  /\ distmap = EmptyMap
  /\ num_solutions_found = 0
  /\ solutions = 0
  /\ max_solutions = DefaultMaxSolutions
  /\ armed = FALSE
  /\ saved = <<>>
  /\ last = NoCall
  /\ weight \in {<<w1, w2>> : w1 \in Weights, w2 \in Weights}
  /\ rangen = <<0, 0>>
  /\ choices = << <<>>, <<>> >>
  /\ lexis = TemplateAtoms
  /\ lex = TemplateAtoms
  /\ poleset = {}
  /\ pending = {}
  /\ pole_pairs = {}
  /\ lexis_poles = {}
  /\ edges = {}

NextLexis == \E to_con \in Cons : CallSelectFromLexis(to_con)

SpecLexis == InitLexis /\ [][NextLexis]_vars

\* The two runs compared for reproducibility.
Runs == {1, 2}

\* std::mt19937 is a deterministic generator: its next state and the
\* index it gives a distribution of n outcomes are functions of its state.
Advance(s) == (5 * s + 3) % (MaxSeed + 1)

Outcome(s, n) == (s % n) + 1

\* dist(rangen) in both runs, for the same distribution of n outcomes.
DrawInBothRuns(n) ==
  /\ Len(choices[1]) < MaxChoices
  /\ choices' = [r \in Runs |-> Append(choices[r], Outcome(rangen[r], n))]
  /\ rangen' = [r \in Runs |-> Advance(rangen[r])]
  /\ UNCHANGED << selVars, poleVars, lexVars, dictVars >>

\* Two runs of do_random_aggregate on the same arguments.  Neither the
\* arguments nor the parameters carry a seed: in each run the generator is
\* seeded by the random device.
InitRuns ==
  /\ \E t \in Templates : inst = <<t>>
  /\ open_sections = {1}
  /\ opensect = EmptyMap
  /\ opendi = EmptyMap
  /\ opensel_stack = <<>>
  /\ distmap = EmptyMap
  /\ num_solutions_found = 0
  /\ solutions = 0
  /\ max_solutions = DefaultMaxSolutions
  /\ armed = FALSE
  /\ saved = <<>>
  /\ last = NoCall
  /\ weight = TemplateWeight
  /\ rangen \in [Runs -> 0..MaxSeed]
  /\ choices = << <<>>, <<>> >>
  /\ lexis = TemplateAtoms
  /\ lex = TemplateAtoms
  /\ poleset = {}
  /\ pending = {}
  /\ pole_pairs = {}
  /\ lexis_poles = {}
  /\ edges = {}

NextRuns == \E n \in 2..3 : DrawInBothRuns(n)

SpecRuns == InitRuns /\ [][NextRuns]_vars

\* do_random_aggregate, lines 57 and 81-83: a new Dictionary is filled with
\* every Section atom of the AtomSpace.
AddToLexis ==
  /\ lex' = SectionAtoms
  /\ last' = Call("add_to_lexis")
  /\ UNCHANGED lexis
  /\ UNCHANGED << inst, open_sections, opensect, opendi, opensel_stack,
                  distmap, num_solutions_found, solutions, max_solutions,
                  armed, saved >>
  /\ UNCHANGED << poleVars, lexVars, runVars >>

\* Calls of do_random_aggregate, each followed by a search that makes
\* sections; the caller hands over any of the templates as the lexis.
InitLexicon ==
  /\ \E t \in Templates : inst = <<t>>
  /\ open_sections = {1}
  /\ opensect = EmptyMap
  /\ opendi = EmptyMap
  /\ opensel_stack = <<>>
  /\ distmap = EmptyMap
  /\ num_solutions_found = 0
  /\ solutions = 0
  /\ max_solutions = DefaultMaxSolutions
  /\ armed = FALSE
  /\ saved = <<>>
  /\ last = NoCall
  /\ weight = TemplateWeight
  /\ rangen = <<0, 0>>
  /\ choices = << <<>>, <<>> >>
  /\ lexis \in (SUBSET TemplateAtoms) \ {{}}
  /\ lex = {}
  /\ poleset = {}
  /\ pending = {}
  /\ pole_pairs = {}
  /\ lexis_poles = {}
  /\ edges = {}

NextLexicon ==
  \/ AddToLexis
  \/ /\ lex # {}
     /\ \E fm_sect \in Instances, to_con \in Cons, ce \in BOOLEAN :
          Select(fm_sect, to_con, ce)

SpecLexicon == InitLexicon /\ [][NextLexicon]_vars

\* The only_self test left out: the redraw loop is entered whatever the
\* candidates are.
OnlySelfCheckOff(to_sects, fm_sect) == FALSE

\* Lines 145-153: every candidate is the requesting section.
OnlySelfCheck(to_sects, fm_sect) ==
  \A k \in 1..Len(to_sects) : to_sects[k] = fm_sect

\* select_from_open followed statement by statement up to its redraw
\* loop: the call returns at once (last.op is "select_from_open"), or it
\* caches the candidates and their distribution and enters the loop of
\* lines 179-183 (last.op is "redraw").
SelectFromOpenEnter(fm_sect, to_con) ==
  /\ IF to_con \in DOMAIN opensect /\ Len(opensect[to_con]) = 0
     THEN /\ last' = [Call("select_from_open") EXCEPT
                        !.fm = fm_sect, !.con = to_con, !.ce = TRUE]
          /\ UNCHANGED << opensect, opendi >>
     ELSE IF to_con \in DOMAIN opendi
     THEN /\ \E k \in 1..opendi[to_con] :
               last' = [Call("select_from_open") EXCEPT
                          !.fm = fm_sect, !.con = to_con, !.ce = TRUE,
                          !.open = opensect[to_con][k],
                          !.ret = opensect[to_con][k]]
          /\ UNCHANGED << opensect, opendi >>
     ELSE
       LET to_sects == Connectable(open_sections, to_con)
       IN /\ opensect' = Put(opensect, to_con, to_sects)
          /\ IF Len(to_sects) = 0
             THEN /\ last' = [Call("select_from_open") EXCEPT
                                !.fm = fm_sect, !.con = to_con, !.ce = TRUE]
                  /\ opendi' = opendi
             ELSE IF Len(to_sects) = 1
             THEN /\ last' = [Call("select_from_open") EXCEPT
                                !.fm = fm_sect, !.con = to_con, !.ce = TRUE,
                                !.open = IF to_sects[1] # fm_sect
                                         THEN to_sects[1] ELSE UNDEFINED,
                                !.ret = IF to_sects[1] # fm_sect
                                        THEN to_sects[1] ELSE UNDEFINED]
                  /\ opendi' = opendi
             ELSE IF OnlySelfCheck(to_sects, fm_sect)
             THEN /\ last' = [Call("select_from_open") EXCEPT
                                !.fm = fm_sect, !.con = to_con, !.ce = TRUE]
                  /\ opendi' = opendi
             ELSE /\ last' = [Call("redraw") EXCEPT
                                !.fm = fm_sect, !.con = to_con, !.ce = TRUE]
                  /\ opendi' = Put(opendi, to_con, Len(to_sects))
  /\ UNCHANGED << inst, open_sections, opensel_stack, distmap,
                  num_solutions_found, solutions, max_solutions, armed,
                  saved >>
  /\ UNCHANGED << poleVars, lexVars, runVars, dictVars >>

\* One turn of the loop of lines 179-183 in which dist(rangen) gives the
\* index k: the call returns the choice unless it is the requester.
Redraw(k) ==
  /\ last.op = "redraw"
  /\ k \in 1..opendi[last.con]
  /\ last' = IF opensect[last.con][k] # last.fm
             THEN [last EXCEPT !.op = "redrawn",
                               !.open = opensect[last.con][k],
                               !.ret = opensect[last.con][k]]
             ELSE last
  /\ UNCHANGED << inst, open_sections, opensect, opendi, opensel_stack,
                  distmap, num_solutions_found, solutions, max_solutions,
                  armed, saved >>
  /\ UNCHANGED << poleVars, lexVars, runVars, dictVars >>

\* The longest candidate list: every connector of every section.
MaxCands == 2 * MaxInst

\* The search with the redraw loop followed turn by turn.  Nothing else
\* runs while a call is inside the loop.
NextRedraw ==
  \/ /\ last.op # "redraw"
     /\ \E fm_sect \in Instances, to_con \in Cons :
          Select(fm_sect, to_con, FALSE)
  \/ /\ last.op # "redraw"
     /\ \E fm_sect \in Instances, to_con \in Cons :
          SelectFromOpenEnter(fm_sect, to_con)
  \/ \E k \in 1..MaxCands : Redraw(k)
  \/ DriverCommit

\* Fair random draws: an index the distribution can give is given in the
\* end.
SpecRedraw ==
  /\ InitSelect
  /\ [][NextRedraw]_vars
  /\ \A k \in 1..MaxCands : WF_vars(Redraw(k))

\* ------------------------------------------------------------------ claims
\* The candidates the frame's open sections hold for the connector of the
\* last call.
Frontier == Connectable(open_sections, last.con)

\* The last call was a select that tried the reuse path.
ReuseSelect == last.op = "select" /\ last.ce

\* The last select returned a section made by the Lexicon path.
FreshResult ==
  /\ last.open = UNDEFINED
  /\ last.ret = Len(inst)
  /\ \E k \in 1..Len(Sections(last.con)) : inst[last.ret] = Sections(last.con)[k]

\* C1: under the driver contract the number of solutions recorded never
\* exceeds max_solutions.
C1_SolutionCap == solutions <= max_solutions

\* C2: once max_solutions solutions have been recorded, every call of step
\* returns false.
C2_StepStopsAtCap ==
  (last.op = "step" /\ num_solutions_found = max_solutions) => ~last.ok

\* C3: after a pop_frame the open-connector candidate lists and
\* distributions are those of the moment before the matching push_frame.
C3_BacktrackRestores ==
  [][last'.op = "pop_frame" =>
       /\ opensect' = saved[Len(saved)].os
       /\ opendi' = saved[Len(saved)].od]_vars

\* C3 witness: a pop from a nested branch that brought back a non-empty
\* distribution cache.
C3_Witness ==
  /\ last.op = "pop_frame"
  /\ Len(opensel_stack) >= 1
  /\ DOMAIN opendi # {}
  /\ DOMAIN opensect # DOMAIN opendi

\* C4: the reuse path of select never returns the requesting section
\* itself.
C4_NoSelfSelection ==
  (last.op = "select" /\ last.open # UNDEFINED) => last.open # last.fm

\* The pole pairs the caller declared: each declared pair, and its reverse
\* when the declaration is symmetric.
DeclaredPairs ==
  UNION {
    LET a == m.out[1]
    IN {<<a.out[1], a.out[2]>>}
       \cup (IF IsUnordered(a.type) THEN {<<a.out[2], a.out[1]>>} ELSE {})
    : m \in {x \in poleset : x.out[2] = poles}}

\* C5: every edge joins two connectors whose poles form a declared pole
\* pair, directly or as the reverse of a symmetric declaration.
C5_EdgesAreDeclaredPairs == edges \subseteq DeclaredPairs

\* The part of C5 that select decides: a section select returns holds a
\* connector equal to to_con.
SelectReturnsHolderOfToCon ==
  (last.op = "select" /\ last.ret # UNDEFINED)
    => \E j \in 1..Len(ConSeqOf(last.ret)) : ConSeqOf(last.ret)[j] = last.con

\* The reuse path gets as far as scanning the frame for `con`: the
\* current frame caches neither an empty candidate list nor a distribution
\* for it.
Scans(con) ==
  /\ ~(con \in DOMAIN opensect /\ Len(opensect[con]) = 0)
  /\ con \notin DOMAIN opendi

\* Every candidate of the sequence is the section `x`.
OnlySelf(cands, x) == \A k \in 1..Len(cands) : cands[k] = x

\* C6: with no Lexicon candidate for the requested connector and no open
\* section, select returns the undefined handle and leaves the solution
\* count, the frame stack and the Lexicon distribution cache unchanged.
C6_DeadEnd ==
  [][(/\ last'.op = "select"
      /\ Len(Sections(last'.con)) = 0
      /\ open_sections = {})
     => /\ last'.ret = UNDEFINED
        /\ num_solutions_found' = num_solutions_found
        /\ solutions' = solutions
        /\ opensel_stack' = opensel_stack
        /\ distmap' = distmap]_vars

\* C6 witness: such a dead end met on the reuse path, inside a pushed frame
\* and with a Lexicon distribution already cached.
C6_Witness ==
  /\ ReuseSelect
  /\ Len(Sections(last.con)) = 0
  /\ open_sections = {}
  /\ last.ret = UNDEFINED
  /\ Len(opensel_stack) >= 1
  /\ DOMAIN distmap # {}

C8_SingleCandidateReturned ==
  (ReuseSelect /\ Len(Frontier) = 1 /\ Frontier[1] # last.fm)
    => last.ret = Frontier[1]

\* C9: with no open candidate, select gives the result of the Lexicon
\* path: a fresh instance of a Lexicon candidate, or the undefined handle
\* exactly when the Lexicon has no candidate.
C9_EmptyFrontierFallsThrough ==
  (ReuseSelect /\ Len(Frontier) = 0)
    => /\ last.open = UNDEFINED
       /\ IF Len(Sections(last.con)) = 0
          THEN last.ret = UNDEFINED
          ELSE FreshResult

\* C10: when connect_existing(frame) is false, select does not try reuse:
\* it returns no section placed before the call, its result is that of the
\* Lexicon path, and the open-connector caches stay as they were.
C10_NoReuseWhenDisabled ==
  [][(last'.op = "select" /\ ~last'.ce)
     => /\ opensect' = opensect
        /\ opendi' = opendi
        /\ last'.open = UNDEFINED
        /\ last'.ret \notin 1..Len(inst)
        /\ IF Len(Sections(last'.con)) = 0
           THEN last'.ret = UNDEFINED /\ inst' = inst
           ELSE FreshResult' /\ Len(inst') = Len(inst) + 1]_vars

\* C10 witness: a fresh section was returned while the frame held open
\* candidates that went unscanned.
C10_Witness ==
  /\ last.op = "select"
  /\ ~last.ce
  /\ FreshResult
  /\ Len(Frontier) >= 1
  /\ last.con \notin DOMAIN opensect

\* C11: the Lexicon-derived distribution cache is not frame-scoped:
\* push_frame and pop_frame leave it as it is, no step removes or alters an
\* entry, and an entry made inside a branch is there, unaltered, after the
\* branch is popped.
C11_DistmapIsGlobal ==
  [][/\ last'.op \in {"push_frame", "pop_frame"} => distmap' = distmap
     /\ \A c \in DOMAIN distmap :
          c \in DOMAIN distmap' /\ distmap'[c] = distmap[c]]_vars

\* C11 witness: a pop_frame has just ended a branch that was entered with
\* no entry in the cache, and the entry made inside the branch is still
\* there while the open-connector caches are back to empty.
C11_Witness ==
  /\ last.op = "pop_frame"
  /\ last.dm = EmptyMap
  /\ "a" \in DOMAIN distmap
  /\ distmap["a"] = Pdf(Sections("a"))
  /\ opensect = EmptyMap

\* The last call was select_from_lexis on its own.
LexisCall == last.op = "select_from_lexis"

\* The weight of template t is a positive number.
HasMass(t) == weight[t] # NoValue /\ weight[t] > 0

\* Some Lexicon candidate for `con` has a positive weight.
SomeMass(con) ==
  \E k \in 1..Len(Sections(con)) : HasMass(Sections(con)[k])

\* C12: whenever some Lexicon candidate for the connector has a positive
\* weight, select_from_lexis instantiates no template whose weight is
\* absent or zero.
C12_NoMassNeverDrawn ==
  (LexisCall /\ SomeMass(last.con) /\ last.ret # UNDEFINED)
    => HasMass(inst[last.ret])

\* C12 witness: the drawn candidate stands after one with no weight
\* stored, and the draw came from the cached distribution.
C12_Witness ==
  /\ LexisCall
  /\ last.con = "a"
  /\ weight[1] = NoValue
  /\ HasMass(2)
  /\ Len(inst) = 3
  /\ last.ret = 3
  /\ inst[3] = 2

\* C13: when every Lexicon candidate for the connector has zero or absent
\* weight, select_from_lexis instantiates no template.
C13_ZeroMassNeverSelects ==
  (LexisCall /\ Len(Sections(last.con)) > 0 /\ ~SomeMass(last.con))
    => last.ret = UNDEFINED

\* C20: select_from_lexis returns the undefined handle exactly when the
\* Lexicon has no candidate for the connector; otherwise it returns a new
\* instance of one of the candidates, whether the distribution was cached
\* by an earlier call or not.
C20_LexisNoneIffNoCandidate ==
  [][last'.op = "select_from_lexis"
     => /\ (last'.ret = UNDEFINED) <=> (Len(Sections(last'.con)) = 0)
        /\ last'.ret = UNDEFINED => inst' = inst
        /\ last'.ret # UNDEFINED =>
             /\ last'.ret = Len(inst) + 1
             /\ Len(inst') = Len(inst) + 1
             /\ \A i \in 1..Len(inst) : inst'[i] = inst[i]
             /\ \E k \in 1..Len(Sections(last'.con)) :
                  inst'[last'.ret] = Sections(last'.con)[k]]_vars

\* C20 witness: a second section drawn for the same connector, from the
\* distribution the first call cached.
C20_Witness ==
  /\ LexisCall
  /\ last.con \in DOMAIN distmap
  /\ Len(inst) = 3
  /\ last.ret = 3
  /\ \E k \in 1..Len(Sections(last.con)) : inst[2] = Sections(last.con)[k]
  /\ \E k \in 1..Len(Sections(last.con)) : inst[3] = Sections(last.con)[k]

\* C14: two runs on the same lexis, pole table, configuration and seed
\* points make the same sequence of random draws.
C14_SameDrawsInBothRuns == choices[1] = choices[2]

\* C15: once the registration loop is done, the Dictionary holds every
\* pole pair the caller declared, and the reverse of each symmetric
\* declaration of two different poles.
C15_DeclaredPairsRegistered ==
  pending = {} => DeclaredPairs \subseteq pole_pairs

\* C16: the solution counter always equals the number of networks
\* recorded; a call of solution adds exactly one to both, and select, step,
\* push_frame and pop_frame change neither.
C16_CounterCountsSolutions ==
  /\ [](num_solutions_found = solutions)
  /\ [][/\ last'.op = "solution" =>
            /\ num_solutions_found' = num_solutions_found + 1
            /\ solutions' = solutions + 1
        /\ last'.op \in {"select", "step", "push_frame", "pop_frame"} =>
            /\ num_solutions_found' = num_solutions_found
            /\ solutions' = solutions]_vars

\* C16 witness: a second solution recorded inside a pushed frame, after
\* the search has made a section and cached a frontier.
C16_Witness ==
  /\ last.op = "solution"
  /\ num_solutions_found = 2
  /\ solutions = 2
  /\ Len(opensel_stack) >= 1
  /\ Len(inst) >= 2
  /\ DOMAIN opensect # {}

\* C17: step returns true exactly when the solution count is at most
\* max_solutions and the parameters' step returns true, and it changes no
\* state of the policy.
C17_StepIffUnderCapAndParms ==
  [][last'.op = "step" =>
       /\ last'.ok <=> (num_solutions_found <= max_solutions /\ last'.ps)
       /\ UNCHANGED << inst, open_sections, opensect, opendi, opensel_stack,
                       distmap, num_solutions_found, solutions,
                       max_solutions >>]_vars

\* C17 witness: step returned true with the count equal to max_solutions,
\* inside a pushed frame.
C17_Witness ==
  /\ last.op = "step"
  /\ last.ok
  /\ last.ps
  /\ num_solutions_found = max_solutions
  /\ Len(opensel_stack) >= 1
  /\ DOMAIN distmap # {}

\* C18: push_frame puts the live open-connector caches on top of the frame
\* stack and leaves both empty; an entry enters the live candidate-list
\* cache only by a reuse-path select for its connector (or comes back by a
\* pop_frame), and a reuse-path select that finds no entry for its
\* connector scans the frame's open sections and answers from that scan.
C18_PushFrameStartsClean ==
  [][/\ last'.op = "push_frame" =>
          /\ opensel_stack' =
               Append(opensel_stack, [os |-> opensect, od |-> opendi])
          /\ opensect' = EmptyMap
          /\ opendi' = EmptyMap
     /\ \A c \in DOMAIN opensect' \ DOMAIN opensect :
          \/ last'.op = "pop_frame"
          \/ last'.op = "select" /\ last'.ce /\ last'.con = c
     /\ (last'.op = "select" /\ last'.ce /\ last'.con \notin DOMAIN opensect)
          => /\ opensect'[last'.con] = Connectable(open_sections, last'.con)
             /\ last'.open # UNDEFINED =>
                  \E k \in 1..Len(Connectable(open_sections, last'.con)) :
                    last'.open = Connectable(open_sections, last'.con)[k]]_vars

\* C18 witness: in a pushed branch a reuse-path select scanned the frame
\* and returned its one candidate, while the parent branch holds a longer
\* list and a distribution for the same connector.
C18_Witness ==
  /\ ReuseSelect
  /\ Len(opensel_stack) >= 1
  /\ last.con \in DOMAIN opensel_stack[Len(opensel_stack)].od
  /\ Len(opensel_stack[Len(opensel_stack)].os[last.con]) >= 2
  /\ last.con \in DOMAIN opensect
  /\ last.con \notin DOMAIN opendi
  /\ opensect[last.con] = Frontier
  /\ Len(Frontier) = 1
  /\ last.open = Frontier[1]

\* C19: every section the reuse path returns is one of the frame's open
\* sections and holds a connector equal to to_con.
C19_ReuseAnswersFromFrontier ==
  (last.op = "select" /\ last.open # UNDEFINED)
    => /\ last.open \in open_sections
       /\ \E j \in 1..Len(ConSeqOf(last.open)) :
            ConSeqOf(last.open)[j] = last.con

\* A call is inside the redraw loop.
InRedrawLoop == last.op = "redraw"

\* C21: whenever the redraw loop is entered the candidate list holds a
\* section other than the requester, and under fair draws the loop ends by
\* returning a candidate other than the requester.
C21_RedrawTerminates ==
  /\ [](InRedrawLoop =>
          \E k \in 1..opendi[last.con] : opensect[last.con][k] # last.fm)
  /\ InRedrawLoop ~> (last.op = "redrawn" /\ last.open # last.fm
                        /\ last.open # UNDEFINED)

\* C21 witness: the loop returned a candidate from a list that also holds
\* the requester, so a draw could have hit the requester.
C21_Witness ==
  /\ last.op = "redrawn"
  /\ last.open # last.fm
  /\ \E k \in 1..Len(opensect[last.con]) : opensect[last.con][k] = last.fm
  /\ \E k \in 1..Len(opensect[last.con]) : opensect[last.con][k] = last.open

\* The live open-connector caches and every pair saved on the frame stack.
AllOpenSel ==
  {[os |-> opensect, od |-> opendi]}
    \cup {opensel_stack[i] : i \in 1..Len(opensel_stack)}

\* C22: in the live caches and in every saved frame, a connector with a
\* cached distribution has a cached candidate list of at least two
\* elements, as many as the distribution has outcomes.
C22_CacheShape ==
  \A f \in AllOpenSel : \A c \in DOMAIN f.od :
    /\ c \in DOMAIN f.os
    /\ Len(f.os[c]) >= 2
    /\ Len(f.os[c]) = f.od[c]

\* C22 witness: a distribution is cached in the live caches and another,
\* over a list of another length, in a saved frame.
C22_Witness ==
  /\ last.op = "select"
  /\ "a" \in DOMAIN opendi
  /\ \E i \in 1..Len(opensel_stack) :
       /\ "a" \in DOMAIN opensel_stack[i].od
       /\ opensel_stack[i].od["a"] # opendi["a"]

\* C23: the lexis of the Dictionary a call builds is exactly the set of
\* templates the caller handed over; no other Section of the AtomSpace, and
\* no section made by a search, is in it.
C23_LexisIsTheSuppliedSource == lex # {} => lex = lexis

\* C24: every section the Lexicon path returns is a new Section Instance
\* of the template drawn: it is none of the instances that existed before
\* the call, so none placed in the network and none returned by an earlier
\* select, also when the same template is drawn again.
C24_LexisResultIsFresh ==
  [][(last'.op = "select_from_lexis" /\ last'.ret # UNDEFINED)
     => /\ last'.ret \notin 1..Len(inst)
        /\ last'.ret \in 1..Len(inst')
        /\ \A i \in 1..Len(inst) : inst'[i] = inst[i]]_vars

\* C24 witness: the same template was drawn twice and the second call
\* returned another instance than the first.
C24_Witness ==
  /\ LexisCall
  /\ Len(inst) = 3
  /\ inst[2] = inst[3]
  /\ last.ret = 3

====
